---- MODULE Spec2Model ----
(***************************************************************************)
(* rocBLAS symv (y := alpha*A*x + beta*y) and syr (A := A + alpha*x*x^T):  *)
(* argument validation, the dispatch templates and the device kernels of   *)
(* library/src/blas2/rocblas_symv.hpp and rocblas_syr.hpp.                 *)
(*                                                                         *)
(* Elements are integers, so every product and sum is exact; floating      *)
(* point rounding and NaN propagation are outside this model.  The tile    *)
(* sizes are the kernels' template parameters DIM_X, DIM_Y; the templates  *)
(* are instantiated here at small sizes so that several tiles, and a last  *)
(* tile that is only partly used, occur for n <= MaxN.                     *)
(***************************************************************************)
EXTENDS Integers, Sequences, FiniteSets, TLC

\* ------------------------------------------------------------------ bounds
\* largest problem dimension n
MaxN == 3
\* largest batch_count
MaxBatch == 2
\* largest |incx|, |incy|
MaxInc == 2
\* DIM_X, DIM_Y of symv_kernel<DIM_X, DIM_Y> (64 x 16 in the library build)
symv_DIM_X == 2
symv_DIM_Y == 2
\* DIM_X, DIM_Y of rocblas_syr_kernel<DIM_X, DIM_Y> (128 x 8 in the library build)
GEMV_DIM_X == 2
GEMV_DIM_Y == 2
\* most workers of one launch whose steps are interleaved one by one (SpecGrid)
MaxWorkers == 8

\* ------------------------------------------------------------------ memory
Abs(i) == IF i < 0 THEN -i ELSE i

\* one region of each device heap per batch instance: room for a matrix with
\* lda <= MaxN + 1 and a vector with |inc| <= MaxInc, each behind an offset <= 1
ARegion == (MaxN + 1) * MaxN + 1
VRegion == MaxInc * (MaxN - 1) + 2
Batches == 0 .. (MaxBatch - 1)
AAddrs == 0 .. (MaxBatch * ARegion - 1)
VAddrs == 0 .. (MaxBatch * VRegion - 1)

\* the contents the caller put into the buffers: all entries of a region are
\* distinct, and a region's seed changes all of them
AVal(a, s) == IF s = 0 THEN a + 1 ELSE 2 * a + 3
XVal(a, s) == IF s = 0 THEN a + 2 ELSE 5 - a
YVal(a, s) == IF s = 0 THEN a + 10 ELSE -(a + 1)
Seeds == [Batches -> 0 .. 1]
MemA0(sd) == [a \in AAddrs |-> AVal(a, sd[a \div ARegion])]
MemX0(sd) == [a \in VAddrs |-> XVal(a, sd[a \div VRegion])]
MemY0(sd) == [a \in VAddrs |-> YVal(a, sd[a \div VRegion])]

\* what an element of the __shared__ array holds before it is first written
Uninit == 0 - 1000

\* what a load from outside the heap gives
Wild == 0 - 999
Load(mem, a) == IF a \in DOMAIN mem THEN mem[a] ELSE Wild

ScalarVals == 0 .. 2

\* ---------------------------------------------------- pointers and scalars
\* V/W: a single base pointer (const T*) or an array of per-instance pointers
\* (const T* const*); U: a scalar by value (T) or a pointer to scalars (const T*)
NullPtr == [kind |-> "null", base |-> 0, ptrs |-> [b \in Batches |-> 0]]
Ptr(p) == [kind |-> "ptr", base |-> p, ptrs |-> [b \in Batches |-> 0]]
PtrArray(f) == [kind |-> "array", base |-> 0, ptrs |-> f]
IsNull(p) == p.kind = "null"

\* load_ptr_batch(p, block, offset, stride): p + block * stride + offset for a
\* single buffer, p[block] + offset for an array of pointers
load_ptr_batch(p, block, offset, stride) ==
    IF p.kind = "array" THEN p.ptrs[block] + offset ELSE p.base + block * stride + offset

\* the entries of a pointer array that load_ptr_batch reads
ptr_batch_reads(name, p, block) ==
    IF p.kind = "array" THEN {<<name, block>>} ELSE {}

\* cond_load_ptr_batch(cond, p, block, offset, stride): the pointer when cond,
\* nullptr (nothing read) otherwise
cond_load_ptr_batch(cond, p, block, offset, stride) ==
    IF cond THEN load_ptr_batch(p, block, offset, stride) ELSE 0 - 1

cond_ptr_batch_reads(cond, name, p, block) ==
    IF cond THEN ptr_batch_reads(name, p, block) ELSE {}

\* a scalar argument: by value, or a pointer to memory mem (host or device)
ScalarValue(v) == [kind |-> "value", v |-> v, mem |-> [b \in Batches |-> 0]]
ScalarPtr(m) == [kind |-> "ptr", v |-> 0, mem |-> m]
ScalarNull == [kind |-> "null", v |-> 0, mem |-> [b \in Batches |-> 0]]

\* load_scalar(x, idx, inc): x[idx * inc] for a pointer, x itself for a value
load_scalar(x, idx, inc) ==
    IF x.kind = "ptr" THEN x.mem[idx * inc] ELSE x.v

\* ------------------------------------------------------ argument validation
\* the symv check with the null-pointer test ahead of the quick return
symv_arg_check_pointers_first(a) ==
    IF a.pointer_mode = "host" /\ (a.stride_alpha # 0 \/ a.stride_beta # 0)
    THEN "not_implemented"
    ELSE IF a.uplo # "lower" /\ a.uplo # "upper"
    THEN "invalid_value"
    ELSE IF a.n < 0 \/ a.lda < a.n \/ a.lda < 1 \/ a.incx = 0 \/ a.incy = 0
            \/ a.batch_count < 0
    THEN "invalid_size"
    ELSE IF IsNull(a.A) \/ IsNull(a.x) \/ IsNull(a.y) \/ a.alpha.kind = "null"
            \/ a.beta.kind = "null"
    THEN "invalid_pointer"
    ELSE IF a.n = 0 \/ a.batch_count = 0
    THEN "success"
    ELSE "continue"

\* rocblas_symv_arg_check: the status the checks give, "continue" when all pass
rocblas_symv_arg_check(a) ==
    IF a.pointer_mode = "host" /\ (a.stride_alpha # 0 \/ a.stride_beta # 0)
    THEN "not_implemented"
    ELSE IF a.uplo # "lower" /\ a.uplo # "upper"
    THEN "invalid_value"
    ELSE IF a.n < 0 \/ a.lda < a.n \/ a.lda < 1 \/ a.incx = 0 \/ a.incy = 0
            \/ a.batch_count < 0
    THEN "invalid_size"
    ELSE IF a.n = 0 \/ a.batch_count = 0
    THEN "success"
    ELSE IF IsNull(a.A) \/ IsNull(a.x) \/ IsNull(a.y) \/ a.alpha.kind = "null"
            \/ a.beta.kind = "null"
    THEN "invalid_pointer"
    ELSE "continue"

\* rocblas_syr_arg_check
rocblas_syr_arg_check(a) ==
    IF a.uplo # "lower" /\ a.uplo # "upper"
    THEN "invalid_value"
    ELSE IF a.n < 0 \/ a.incx = 0 \/ a.lda < a.n \/ a.lda < 1 \/ a.batch_count < 0
    THEN "invalid_size"
    ELSE IF a.n = 0 \/ a.batch_count = 0
    THEN "success"
    ELSE IF a.alpha.kind = "null" \/ IsNull(a.x) \/ IsNull(a.A)
    THEN "invalid_pointer"
    ELSE "continue"

\* ---------------------------------------------------------------- dispatch
\* what a template returns without a launch
NoLaunch(st) ==
    [status |-> st, launched |-> FALSE, k |-> [n |-> 0],
     grid |-> [bx |-> 0, by |-> 0, nb |-> 0, tx |-> 0, ty |-> 0]]

\* the symv template that hands *alpha to the kernel as beta too
symv_template_alpha_for_beta(a) ==
    IF a.n = 0 \/ a.batch_count = 0
    THEN NoLaunch("success")
    ELSE
    LET shiftx == IF a.incx < 0 THEN a.offsetx - a.incx * (a.n - 1) ELSE a.offsetx
        shifty == IF a.incy < 0 THEN a.offsety - a.incy * (a.n - 1) ELSE a.offsety
        blocks == (a.n - 1) \div symv_DIM_X + 1
        grid == [bx |-> blocks, by |-> 1, nb |-> a.batch_count,
                 tx |-> symv_DIM_X, ty |-> symv_DIM_Y]
        upper == a.uplo = "upper"
        kargs(al, be) ==
            [upper |-> upper, n |-> a.n, alpha |-> al, stride_alpha |-> a.stride_alpha,
             Aa |-> a.A, shifta |-> a.offseta, lda |-> a.lda, strideA |-> a.strideA,
             xa |-> a.x, shiftx |-> shiftx, incx |-> a.incx, stridex |-> a.stridex,
             beta |-> be, stride_beta |-> a.stride_beta,
             ya |-> a.y, shifty |-> shifty, incy |-> a.incy, stridey |-> a.stridey]
    IN  IF a.pointer_mode = "device"
        THEN [status |-> "success", launched |-> TRUE,
              k |-> kargs(a.alpha, a.beta), grid |-> grid]
        ELSE IF a.batch_count = 1 /\ a.alpha.mem[0] = 0 /\ a.beta.mem[0] = 1
        THEN NoLaunch("success")
        ELSE [status |-> "success", launched |-> TRUE,
              k |-> kargs(ScalarValue(a.alpha.mem[0]), ScalarValue(a.alpha.mem[0])),
              grid |-> grid]

\* the symv template that shifts by n, not n - 1, elements
symv_template_shift_n(a) ==
    IF a.n = 0 \/ a.batch_count = 0
    THEN NoLaunch("success")
    ELSE
    LET shiftx == IF a.incx < 0 THEN a.offsetx - a.incx * a.n ELSE a.offsetx
        shifty == IF a.incy < 0 THEN a.offsety - a.incy * a.n ELSE a.offsety
        blocks == (a.n - 1) \div symv_DIM_X + 1
        grid == [bx |-> blocks, by |-> 1, nb |-> a.batch_count,
                 tx |-> symv_DIM_X, ty |-> symv_DIM_Y]
        upper == a.uplo = "upper"
        kargs(al, be) ==
            [upper |-> upper, n |-> a.n, alpha |-> al, stride_alpha |-> a.stride_alpha,
             Aa |-> a.A, shifta |-> a.offseta, lda |-> a.lda, strideA |-> a.strideA,
             xa |-> a.x, shiftx |-> shiftx, incx |-> a.incx, stridex |-> a.stridex,
             beta |-> be, stride_beta |-> a.stride_beta,
             ya |-> a.y, shifty |-> shifty, incy |-> a.incy, stridey |-> a.stridey]
    IN  IF a.pointer_mode = "device"
        THEN [status |-> "success", launched |-> TRUE,
              k |-> kargs(a.alpha, a.beta), grid |-> grid]
        ELSE IF a.batch_count = 1 /\ a.alpha.mem[0] = 0 /\ a.beta.mem[0] = 1
        THEN NoLaunch("success")
        ELSE [status |-> "success", launched |-> TRUE,
              k |-> kargs(ScalarValue(a.alpha.mem[0]), ScalarValue(a.beta.mem[0])),
              grid |-> grid]

\* rocblas_internal_symv_template: quick returns, the shifts for negative
\* increments, the grid, and the kernel arguments of the launch
rocblas_internal_symv_template(a) ==
    IF a.n = 0 \/ a.batch_count = 0
    THEN NoLaunch("success")
    ELSE
    LET shiftx == IF a.incx < 0 THEN a.offsetx - a.incx * (a.n - 1) ELSE a.offsetx
        shifty == IF a.incy < 0 THEN a.offsety - a.incy * (a.n - 1) ELSE a.offsety
        blocks == (a.n - 1) \div symv_DIM_X + 1
        grid == [bx |-> blocks, by |-> 1, nb |-> a.batch_count,
                 tx |-> symv_DIM_X, ty |-> symv_DIM_Y]
        upper == a.uplo = "upper"
        kargs(al, be) ==
            [upper |-> upper, n |-> a.n, alpha |-> al, stride_alpha |-> a.stride_alpha,
             Aa |-> a.A, shifta |-> a.offseta, lda |-> a.lda, strideA |-> a.strideA,
             xa |-> a.x, shiftx |-> shiftx, incx |-> a.incx, stridex |-> a.stridex,
             beta |-> be, stride_beta |-> a.stride_beta,
             ya |-> a.y, shifty |-> shifty, incy |-> a.incy, stridey |-> a.stridey]
    IN  IF a.pointer_mode = "device"
        THEN [status |-> "success", launched |-> TRUE,
              k |-> kargs(a.alpha, a.beta), grid |-> grid]
        ELSE IF a.batch_count = 1 /\ a.alpha.mem[0] = 0 /\ a.beta.mem[0] = 1
        THEN NoLaunch("success")
        ELSE [status |-> "success", launched |-> TRUE,
              k |-> kargs(ScalarValue(a.alpha.mem[0]), ScalarValue(a.beta.mem[0])),
              grid |-> grid]

\* rocblas_internal_syr_template
rocblas_internal_syr_template(a) ==
    IF a.n = 0 \/ a.batch_count = 0
    THEN NoLaunch("success")
    ELSE
    LET blocksX == (a.n - 1) \div GEMV_DIM_X + 1
        blocksY == (a.n - 1) \div GEMV_DIM_Y + 1
        grid == [bx |-> blocksX, by |-> blocksY, nb |-> a.batch_count,
                 tx |-> GEMV_DIM_X, ty |-> GEMV_DIM_Y]
        shiftx == IF a.incx < 0 THEN a.offsetx - a.incx * (a.n - 1) ELSE a.offsetx
        kargs(al) ==
            [uplo |-> a.uplo, n |-> a.n, alpha |-> al, stride_alpha |-> a.stride_alpha,
             xa |-> a.x, shiftx |-> shiftx, incx |-> a.incx, stridex |-> a.stridex,
             Aa |-> a.A, shiftA |-> a.offseta, lda |-> a.lda, strideA |-> a.strideA]
    IN  IF a.pointer_mode = "device"
        THEN [status |-> "success", launched |-> TRUE, k |-> kargs(a.alpha), grid |-> grid]
        ELSE [status |-> "success", launched |-> TRUE,
              k |-> kargs(ScalarValue(a.alpha.mem[0])), grid |-> grid]

\* the entry point of an operation: the argument check, and the template only
\* when the check says "continue"
rocblas_symv_impl(a) ==
    LET st == rocblas_symv_arg_check(a)
    IN  IF st # "continue" THEN NoLaunch(st) ELSE rocblas_internal_symv_template(a)

rocblas_syr_impl(a) ==
    LET st == rocblas_syr_arg_check(a)
    IN  IF st # "continue" THEN NoLaunch(st) ELSE rocblas_internal_syr_template(a)

Dispatch(a) == IF a.op = "symv" THEN rocblas_symv_impl(a) ELSE rocblas_syr_impl(a)

\* ------------------------------------------------------------- the device
\* The device as the kernels see it: the three heaps, the __shared__ array of
\* every tile, and a record of what was touched: the addresses read (rd*),
\* the number of writes to each address (wr*), and the entries of pointer
\* arrays that were loaded (ldp), the stores that fell outside a heap (fault),
\* and the accesses to sdata: the loads <<tile, slot, thread_id>> (rdS) and the
\* stores <<tile, slot, thread_id, "pre" or "post" the barrier>> (wrS).
MaxBlocks == (MaxN - 1) \div symv_DIM_X + 1
Tiles == Batches \X (0 .. (MaxBlocks - 1))
SSlots == 0 .. (symv_DIM_X * symv_DIM_Y - 1)

Dev0(sd) ==
    [A |-> MemA0(sd), x |-> MemX0(sd), y |-> MemY0(sd),
     sdata |-> [t \in Tiles |-> [i \in SSlots |-> Uninit]],
     rdA |-> {}, rdX |-> {}, rdY |-> {}, rdS |-> {}, wrS |-> {},
     wrA |-> [a \in AAddrs |-> 0], wrY |-> [a \in VAddrs |-> 0],
     ldp |-> {}, fault |-> {}]

\* a store to address a of a heap: lost, and recorded, when a is outside it
StoreFault(name, mem, a) == IF a \in DOMAIN mem THEN {} ELSE {<<name, a>>}

\* a worker: its batch instance b (hipBlockIdx_y for symv, hipBlockIdx_z for
\* syr), its block (bx, by) and its thread (tx, ty) in the block
Workers(grid) ==
    [b : 0 .. (grid.nb - 1), bx : 0 .. (grid.bx - 1), by : 0 .. (grid.by - 1),
     tx : 0 .. (grid.tx - 1), ty : 0 .. (grid.ty - 1)]

NumWorkers(grid) == grid.nb * grid.bx * grid.by * grid.tx * grid.ty

\* the i-th worker of the grid, threads of a block first
WorkerAt(grid, i) ==
    [tx |-> i % grid.tx,
     ty |-> (i \div grid.tx) % grid.ty,
     bx |-> (i \div (grid.tx * grid.ty)) % grid.bx,
     by |-> (i \div (grid.tx * grid.ty * grid.bx)) % grid.by,
     b |-> i \div (grid.tx * grid.ty * grid.bx * grid.by)]

\* ------------------------------------------------------------ symv kernel
\* the index of entry (ind, col) without the mirroring
symv_A_index_unmirrored(upper, ind, col, lda) == ind + col * lda

\* the element of the stored triangle that holds entry (ind, col) of the
\* symmetric matrix, as an index from the matrix base
symv_A_index(upper, ind, col, lda) ==
    IF col >= ind
    THEN (IF upper THEN ind + col * lda ELSE col + ind * lda)
    ELSE (IF ~upper THEN ind + col * lda ELSE col + ind * lda)

\* the column loop of one thread: res_A and the addresses it read
RECURSIVE symv_col_loop(_, _, _, _, _, _, _)
symv_col_loop(k, A, x, ind, col, acc, d) ==
    IF col >= k.n
    THEN acc
    ELSE IF ind < k.n
    THEN LET ai == A + symv_A_index(k.upper, ind, col, k.lda)
             xi == x + col * k.incx
         IN  symv_col_loop(k, A, x, ind, col + symv_DIM_Y,
                           [res |-> acc.res + Load(d.A, ai) * Load(d.x, xi),
                            rdA |-> acc.rdA \cup {ai},
                            rdX |-> acc.rdX \cup {xi}], d)
    ELSE symv_col_loop(k, A, x, ind, col + symv_DIM_Y, acc, d)

\* symv_kernel_calc whose alpha == 0 path stores 0 whatever beta is
symv_kernel_calc_zero(k, alpha, A, x, beta, y, w, grid, d) ==
    LET thread_id == w.tx + w.ty * grid.tx
    IN  IF alpha = 0
        THEN LET ind == w.bx * symv_DIM_X + thread_id
                 yi == y + ind * k.incy
             IN  IF thread_id < symv_DIM_X /\ ind < k.n
                 THEN [pc |-> "done",
                       d |-> IF beta # beta
                             THEN [d EXCEPT !.y[yi] = beta * Load(d.y, yi),
                                            !.rdY = @ \cup {yi}, !.wrY[yi] = @ + 1,
                                            !.fault = @ \cup StoreFault("y", d.y, yi)]
                             ELSE [d EXCEPT !.y[yi] = 0, !.wrY[yi] = @ + 1,
                                            !.fault = @ \cup StoreFault("y", d.y, yi)]]
                 ELSE [pc |-> "done", d |-> d]
        ELSE LET tx == thread_id % symv_DIM_X
                 ty == thread_id \div symv_DIM_X
                 ind == w.bx * symv_DIM_X + tx
                 r == symv_col_loop(k, A, x, ind, ty,
                                    [res |-> 0, rdA |-> {}, rdX |-> {}], d)
             IN  [pc |-> "sync",
                  d |-> [d EXCEPT !.sdata[<<w.b, w.bx>>][tx + ty * symv_DIM_X] = r.res,
                                  !.wrS = @ \cup {<<<<w.b, w.bx>>, tx + ty * symv_DIM_X, thread_id, "pre">>},
                                  !.rdA = @ \cup r.rdA, !.rdX = @ \cup r.rdX]]

\* symv_kernel_calc whose threads of rows >= n return before the barrier
symv_kernel_calc_rows_return(k, alpha, A, x, beta, y, w, grid, d) ==
    LET thread_id == w.tx + w.ty * grid.tx
    IN  IF alpha = 0
        THEN LET ind == w.bx * symv_DIM_X + thread_id
                 yi == y + ind * k.incy
             IN  IF thread_id < symv_DIM_X /\ ind < k.n
                 THEN [pc |-> "done",
                       d |-> IF beta # 0
                             THEN [d EXCEPT !.y[yi] = beta * Load(d.y, yi),
                                            !.rdY = @ \cup {yi}, !.wrY[yi] = @ + 1,
                                            !.fault = @ \cup StoreFault("y", d.y, yi)]
                             ELSE [d EXCEPT !.y[yi] = 0, !.wrY[yi] = @ + 1,
                                            !.fault = @ \cup StoreFault("y", d.y, yi)]]
                 ELSE [pc |-> "done", d |-> d]
        ELSE LET tx == thread_id % symv_DIM_X
                 ty == thread_id \div symv_DIM_X
                 ind == w.bx * symv_DIM_X + tx
                 r == symv_col_loop(k, A, x, ind, ty,
                                    [res |-> 0, rdA |-> {}, rdX |-> {}], d)
             IN  IF ind >= k.n THEN [pc |-> "done", d |-> d] ELSE
                 [pc |-> "sync",
                  d |-> [d EXCEPT !.sdata[<<w.b, w.bx>>][tx + ty * symv_DIM_X] = r.res,
                                  !.wrS = @ \cup {<<<<w.b, w.bx>>, tx + ty * symv_DIM_X, thread_id, "pre">>},
                                  !.rdA = @ \cup r.rdA, !.rdX = @ \cup r.rdX]]

\* symv_kernel_calc up to __syncthreads(): the alpha == 0 path, which ends
\* the thread, or the partial sum stored to sdata
symv_kernel_calc(k, alpha, A, x, beta, y, w, grid, d) ==
    LET thread_id == w.tx + w.ty * grid.tx
    IN  IF alpha = 0
        THEN LET ind == w.bx * symv_DIM_X + thread_id
                 yi == y + ind * k.incy
             IN  IF thread_id < symv_DIM_X /\ ind < k.n
                 THEN [pc |-> "done",
                       d |-> IF beta # 0
                             THEN [d EXCEPT !.y[yi] = beta * Load(d.y, yi),
                                            !.rdY = @ \cup {yi}, !.wrY[yi] = @ + 1,
                                            !.fault = @ \cup StoreFault("y", d.y, yi)]
                             ELSE [d EXCEPT !.y[yi] = 0, !.wrY[yi] = @ + 1,
                                            !.fault = @ \cup StoreFault("y", d.y, yi)]]
                 ELSE [pc |-> "done", d |-> d]
        ELSE LET tx == thread_id % symv_DIM_X
                 ty == thread_id \div symv_DIM_X
                 ind == w.bx * symv_DIM_X + tx
                 r == symv_col_loop(k, A, x, ind, ty,
                                    [res |-> 0, rdA |-> {}, rdX |-> {}], d)
             IN  [pc |-> "sync",
                  d |-> [d EXCEPT !.sdata[<<w.b, w.bx>>][tx + ty * symv_DIM_X] = r.res,
                                  !.wrS = @ \cup {<<<<w.b, w.bx>>, tx + ty * symv_DIM_X, thread_id, "pre">>},
                                  !.rdA = @ \cup r.rdA, !.rdX = @ \cup r.rdX]]

\* the reduction that stops one partial sum early
RECURSIVE symv_reduce_short(_, _, _)
symv_reduce_short(sd, thread_id, i) ==
    IF i >= symv_DIM_Y - 1 THEN 0
    ELSE sd[thread_id + symv_DIM_X * i] + symv_reduce_short(sd, thread_id, i + 1)

\* the sum of sdata[thread_id + DIM_X * i] for i = from .. DIM_Y - 1
RECURSIVE symv_reduce(_, _, _)
symv_reduce(sd, thread_id, i) ==
    IF i >= symv_DIM_Y THEN 0
    ELSE sd[thread_id + symv_DIM_X * i] + symv_reduce(sd, thread_id, i + 1)

\* the elements of sdata that thread thread_id loads in its reduction
SlotReads(t, thread_id) ==
    {<<t, thread_id + symv_DIM_X * i, thread_id>> : i \in 0 .. (symv_DIM_Y - 1)}

\* the store to y that multiplies y by beta whatever beta is
symv_calc_sync_reads_y(k, alpha, beta, y, w, grid, d) ==
    LET thread_id == w.tx + w.ty * grid.tx
        ind == w.bx * symv_DIM_X + thread_id
        yi == y + ind * k.incy
        t == <<w.b, w.bx>>
    IN  IF thread_id < symv_DIM_X /\ ind < k.n
        THEN LET s == d.sdata[t][thread_id] + symv_reduce(d.sdata[t], thread_id, 1)
             IN  [d EXCEPT !.sdata[t][thread_id] = s,
                           !.rdS = @ \cup SlotReads(t, thread_id),
                           !.wrS = @ \cup {<<t, thread_id, thread_id, "post">>},
                           !.y[yi] = alpha * s + beta * Load(d.y, yi),
                           !.rdY = @ \cup {yi}, !.wrY[yi] = @ + 1,
                           !.fault = @ \cup StoreFault("y", d.y, yi)]
        ELSE d

\* symv_kernel_calc after __syncthreads(): the reduction and the store to y
symv_kernel_calc_sync(k, alpha, beta, y, w, grid, d) ==
    LET thread_id == w.tx + w.ty * grid.tx
        ind == w.bx * symv_DIM_X + thread_id
        yi == y + ind * k.incy
        t == <<w.b, w.bx>>
    IN  IF thread_id < symv_DIM_X /\ ind < k.n
        THEN LET s == d.sdata[t][thread_id] + symv_reduce(d.sdata[t], thread_id, 1)
             IN  IF beta # 0
                 THEN [d EXCEPT !.sdata[t][thread_id] = s,
                                !.rdS = @ \cup SlotReads(t, thread_id),
                                !.wrS = @ \cup {<<t, thread_id, thread_id, "post">>},
                                !.y[yi] = alpha * s + beta * Load(d.y, yi),
                                !.rdY = @ \cup {yi}, !.wrY[yi] = @ + 1,
                                !.fault = @ \cup StoreFault("y", d.y, yi)]
                 ELSE [d EXCEPT !.sdata[t][thread_id] = s,
                                !.rdS = @ \cup SlotReads(t, thread_id),
                                !.wrS = @ \cup {<<t, thread_id, thread_id, "post">>},
                                !.y[yi] = alpha * s, !.wrY[yi] = @ + 1,
                                !.fault = @ \cup StoreFault("y", d.y, yi)]
        ELSE d

\* symv_kernel with every instance taking the alpha of the first
symv_kernel_alpha_of_first(k, grid, w, d) ==
    LET num_threads == grid.tx * grid.ty
    IN  IF symv_DIM_X * symv_DIM_Y # num_threads
        THEN [pc |-> "done", d |-> d]
        ELSE
        LET alpha == load_scalar(k.alpha, 0, k.stride_alpha)
            beta == load_scalar(k.beta, w.b, k.stride_beta)
        IN  IF alpha = 0 /\ beta = 1
            THEN [pc |-> "done", d |-> d]
            ELSE
            LET A == cond_load_ptr_batch(alpha # 0, k.Aa, w.b, k.shifta, k.strideA)
                x == cond_load_ptr_batch(alpha # 0, k.xa, w.b, k.shiftx, k.stridex)
                y == load_ptr_batch(k.ya, w.b, k.shifty, k.stridey)
                d1 == [d EXCEPT !.ldp = @ \cup cond_ptr_batch_reads(alpha # 0, "A", k.Aa, w.b)
                                     \cup cond_ptr_batch_reads(alpha # 0, "x", k.xa, w.b)
                                     \cup ptr_batch_reads("y", k.ya, w.b)]
            IN  symv_kernel_calc(k, alpha, A, x, beta, y, w, grid, d1)

\* symv_kernel, one thread up to the barrier (or to its return)
symv_kernel(k, grid, w, d) ==
    LET num_threads == grid.tx * grid.ty
    IN  IF symv_DIM_X * symv_DIM_Y # num_threads
        THEN [pc |-> "done", d |-> d]
        ELSE
        LET alpha == load_scalar(k.alpha, w.b, k.stride_alpha)
            beta == load_scalar(k.beta, w.b, k.stride_beta)
        IN  IF alpha = 0 /\ beta = 1
            THEN [pc |-> "done", d |-> d]
            ELSE
            LET A == cond_load_ptr_batch(alpha # 0, k.Aa, w.b, k.shifta, k.strideA)
                x == cond_load_ptr_batch(alpha # 0, k.xa, w.b, k.shiftx, k.stridex)
                y == load_ptr_batch(k.ya, w.b, k.shifty, k.stridey)
                d1 == [d EXCEPT !.ldp = @ \cup cond_ptr_batch_reads(alpha # 0, "A", k.Aa, w.b)
                                     \cup cond_ptr_batch_reads(alpha # 0, "x", k.xa, w.b)
                                     \cup ptr_batch_reads("y", k.ya, w.b)]
            IN  symv_kernel_calc(k, alpha, A, x, beta, y, w, grid, d1)

\* symv_kernel, one thread from the barrier to its end
symv_kernel_sync(k, grid, w, d) ==
    LET alpha == load_scalar(k.alpha, w.b, k.stride_alpha)
        beta == load_scalar(k.beta, w.b, k.stride_beta)
        y == load_ptr_batch(k.ya, w.b, k.shifty, k.stridey)
    IN  symv_kernel_calc_sync(k, alpha, beta, y, w, grid, d)

\* ------------------------------------------------------------- syr kernel
\* the syr thread that leaves out the diagonal
syr_kernel_strict(k, grid, w, d) ==
    LET alpha == load_scalar(k.alpha, w.b, k.stride_alpha)
    IN  IF alpha = 0
        THEN d
        ELSE
        LET tx == w.bx * grid.tx + w.tx
            ty == w.by * grid.ty + w.ty
            x == load_ptr_batch(k.xa, w.b, k.shiftx, k.stridex)
            A == load_ptr_batch(k.Aa, w.b, k.shiftA, k.strideA)
            ai == A + tx + k.lda * ty
            xi == x + tx * k.incx
            xj == x + ty * k.incx
        IN  IF (IF k.uplo = "lower" THEN tx < k.n /\ ty < tx ELSE ty < k.n /\ tx < ty)
            THEN [d EXCEPT !.A[ai] = Load(d.A, ai) + alpha * Load(d.x, xi) * Load(d.x, xj),
                           !.rdA = @ \cup {ai}, !.rdX = @ \cup {xi, xj},
                           !.wrA[ai] = @ + 1,
                           !.fault = @ \cup StoreFault("A", d.A, ai)]
            ELSE d

\* the syr thread that goes on when alpha is 0
syr_kernel_no_skip(k, grid, w, d) ==
    LET alpha == load_scalar(k.alpha, w.b, k.stride_alpha)
    IN  IF alpha # alpha
        THEN d
        ELSE
        LET tx == w.bx * grid.tx + w.tx
            ty == w.by * grid.ty + w.ty
            x == load_ptr_batch(k.xa, w.b, k.shiftx, k.stridex)
            A == load_ptr_batch(k.Aa, w.b, k.shiftA, k.strideA)
            d1 == [d EXCEPT !.ldp = @ \cup ptr_batch_reads("x", k.xa, w.b)
                                 \cup ptr_batch_reads("A", k.Aa, w.b)]
            ai == A + tx + k.lda * ty
            xi == x + tx * k.incx
            xj == x + ty * k.incx
        IN  IF (IF k.uplo = "lower" THEN tx < k.n /\ ty <= tx ELSE ty < k.n /\ tx <= ty)
            THEN [d1 EXCEPT !.A[ai] = Load(d1.A, ai) + alpha * Load(d1.x, xi) * Load(d1.x, xj),
                            !.rdA = @ \cup {ai}, !.rdX = @ \cup {xi, xj},
                            !.wrA[ai] = @ + 1,
                            !.fault = @ \cup StoreFault("A", d1.A, ai)]
            ELSE d1

\* rocblas_syr_kernel, one thread
rocblas_syr_kernel(k, grid, w, d) ==
    LET alpha == load_scalar(k.alpha, w.b, k.stride_alpha)
    IN  IF alpha = 0
        THEN d
        ELSE
        LET tx == w.bx * grid.tx + w.tx
            ty == w.by * grid.ty + w.ty
            x == load_ptr_batch(k.xa, w.b, k.shiftx, k.stridex)
            A == load_ptr_batch(k.Aa, w.b, k.shiftA, k.strideA)
            d1 == [d EXCEPT !.ldp = @ \cup ptr_batch_reads("x", k.xa, w.b)
                                 \cup ptr_batch_reads("A", k.Aa, w.b)]
            ai == A + tx + k.lda * ty
            xi == x + tx * k.incx
            xj == x + ty * k.incx
        IN  IF (IF k.uplo = "lower" THEN tx < k.n /\ ty <= tx ELSE ty < k.n /\ tx <= ty)
            THEN [d1 EXCEPT !.A[ai] = Load(d1.A, ai) + alpha * Load(d1.x, xi) * Load(d1.x, xj),
                            !.rdA = @ \cup {ai}, !.rdX = @ \cup {xi, xj},
                            !.wrA[ai] = @ + 1,
                            !.fault = @ \cup StoreFault("A", d1.A, ai)]
            ELSE d1

\* ------------------------------------------------- a whole launch, in order
\* Threads 0, 1, ... of the grid one after the other.  (Each comparison
\* nd = d has TLC evaluate a thread's step before it goes on to the next.)

\* every thread of the grid up to its barrier (or to its return)
RECURSIVE symv_run_to_sync(_, _, _, _)
symv_run_to_sync(k, grid, i, d) ==
    IF i >= NumWorkers(grid) THEN d
    ELSE LET nd == symv_kernel(k, grid, WorkerAt(grid, i), d).d
         IN  IF nd = d THEN symv_run_to_sync(k, grid, i + 1, d)
             ELSE symv_run_to_sync(k, grid, i + 1, nd)

\* every thread that waits at its barrier, from the barrier to its end
RECURSIVE symv_run_from_sync(_, _, _, _)
symv_run_from_sync(k, grid, i, d) ==
    IF i >= NumWorkers(grid) THEN d
    ELSE IF symv_kernel(k, grid, WorkerAt(grid, i), d).pc # "sync"
    THEN symv_run_from_sync(k, grid, i + 1, d)
    ELSE LET nd == symv_kernel_sync(k, grid, WorkerAt(grid, i), d)
         IN  IF nd = d THEN symv_run_from_sync(k, grid, i + 1, d)
             ELSE symv_run_from_sync(k, grid, i + 1, nd)

symv_launch(k, grid, d) == symv_run_from_sync(k, grid, 0, symv_run_to_sync(k, grid, 0, d))

RECURSIVE syr_run(_, _, _, _)
syr_run(k, grid, i, d) ==
    IF i >= NumWorkers(grid) THEN d
    ELSE LET nd == rocblas_syr_kernel(k, grid, WorkerAt(grid, i), d)
         IN  IF nd = d THEN syr_run(k, grid, i + 1, d)
             ELSE syr_run(k, grid, i + 1, nd)

syr_launch(k, grid, d) == syr_run(k, grid, 0, d)

\* ------------------------------------------------------------- the inputs
\* the scalars behind an alpha or beta pointer, one per batch instance
ScalarArray(s, dd) == [b \in Batches |-> (s + b * dd) % 3]

\* batch instance b's buffer: region b of the heap when the instances lie
\* stride apart in one buffer, region MaxBatch - 1 - b behind a pointer array
BufferOf(batched, isnull, region) ==
    IF isnull THEN NullPtr
    ELSE IF batched THEN PtrArray([b \in Batches |-> (MaxBatch - 1 - b) * region])
    ELSE Ptr(0)

MkArgs(op, uplo, n, lda, incx, incy, bc, pm, sa, sb, al, be, batched, nulls, offs) ==
    [op |-> op, uplo |-> uplo, n |-> n, lda |-> lda, incx |-> incx, incy |-> incy,
     batch_count |-> bc, pointer_mode |-> pm, stride_alpha |-> sa, stride_beta |-> sb,
     alpha |-> IF "alpha" \in nulls THEN ScalarNull ELSE ScalarPtr(al),
     beta |-> IF "beta" \in nulls THEN ScalarNull ELSE ScalarPtr(be),
     batched |-> batched,
     A |-> BufferOf(batched, "A" \in nulls, ARegion),
     x |-> BufferOf(batched, "x" \in nulls, VRegion),
     y |-> BufferOf(batched, "y" \in nulls, VRegion),
     offseta |-> offs, offsetx |-> offs, offsety |-> offs,
     strideA |-> IF batched THEN 0 ELSE ARegion,
     stridex |-> IF batched THEN 0 ELSE VRegion,
     stridey |-> IF batched THEN 0 ELSE VRegion]

\* where the scalars live and what they are: host scalars are one value, device
\* scalars are read stride_alpha (stride_beta) apart
HostScalars ==
    {[pm |-> "host", sa |-> 0, sb |-> 0, al |-> ScalarArray(va, 0), be |-> ScalarArray(vb, 0)] :
        va \in ScalarVals, vb \in ScalarVals}
DeviceScalars ==
    {[pm |-> "device", sa |-> da, sb |-> db, al |-> ScalarArray(va, da), be |-> ScalarArray(vb, db)] :
        va \in ScalarVals, da \in 0 .. 1, vb \in ScalarVals, db \in 0 .. 1}
SymvScalars == HostScalars \cup {c \in DeviceScalars : c.sb = 0 \/ c.be[0] = 1}
SyrScalars == {c \in HostScalars \cup DeviceScalars : c.sb = 0 /\ c.be[0] = 0}

IncRange == {i \in (0 - MaxInc) .. MaxInc : i # 0}
IncPairs == {p \in IncRange \X IncRange : p[1] = 1 \/ p[2] = 1 \/ Abs(p[1]) = Abs(p[2])}

Uplos == {"upper", "lower", "full"}
NullChoices == {{}, {"A"}, {"x"}, {"y"}, {"alpha"}, {"beta"}}
ZeroIncs == {<<1, 1>>, <<0, 1>>, <<1, 0>>}
ZeroStrides == {<<0, 0>>, <<1, 0>>, <<0, 1>>}

NoArgs == MkArgs("none", "full", 0, 0, 0, 0, 0, "host", 0, 0,
                 ScalarArray(0, 0), ScalarArray(0, 0), FALSE, {}, 0)

\* ---------------------------------------------------------- state machine
VARIABLES
    seed,      \* the seeds of the buffers' contents before the call
    args,      \* the arguments of the call (NoArgs before it)
    status,    \* the status the call returned ("none" before it)
    launched,  \* whether the call launched its kernel
    wpc,       \* where each thread of the launch is: "start", "sync", "done"
    dev        \* the device

vars == <<seed, args, status, launched, wpc, dev>>

Init ==
    /\ seed \in Seeds
    /\ args = NoArgs
    /\ status = "none"
    /\ launched = FALSE
    /\ wpc = <<>>
    /\ dev = Dev0(seed)

\* the launch of the call, as the template made it
Launch == Dispatch(args)

\* one call with arguments a: the check, and the launch
CallWith(a) ==
    LET r == Dispatch(a)
    IN  /\ args' = a
        /\ status' = r.status
        /\ launched' = r.launched
        /\ wpc' = IF r.launched THEN [w \in Workers(r.grid) |-> "start"] ELSE <<>>
        /\ UNCHANGED <<seed, dev>>

\* a call of symv that passes the argument check
CallSymv ==
    /\ status = "none"
    /\ \E u \in {"upper", "lower"}, n \in 1 .. MaxN, sl \in 0 .. 1, p \in IncPairs,
          bc \in 1 .. MaxBatch, c \in SymvScalars, bt \in BOOLEAN :
        CallWith(MkArgs("symv", u, n, n + sl, p[1], p[2], bc,
                        c.pm, c.sa, c.sb, c.al, c.be, bt, {}, sl))

\* a call of syr that passes the argument check
CallSyr ==
    /\ status = "none"
    /\ \E u \in {"upper", "lower"}, n \in 1 .. MaxN, sl \in 0 .. 1, ix \in IncRange,
          bc \in 1 .. MaxBatch, c \in SyrScalars, bt \in BOOLEAN :
        CallWith(MkArgs("syr", u, n, n + sl, ix, 1, bc,
                        c.pm, c.sa, c.sb, c.al, c.be, bt, {}, sl))

\* a call of symv with arguments on both sides of every check
CallSymvAny ==
    /\ status = "none"
    /\ \E u \in Uplos, n \in (0 - 1) .. 2, lda \in 0 .. 2, p \in ZeroIncs,
          bc \in (0 - 1) .. 1, pm \in {"host", "device"}, st \in ZeroStrides,
          nl \in NullChoices :
        CallWith(MkArgs("symv", u, n, lda, p[1], p[2], bc, pm, st[1], st[2],
                        ScalarArray(2, 0), ScalarArray(1, 0), FALSE, nl, 0))

\* a call of syr with arguments on both sides of every check
CallSyrAny ==
    /\ status = "none"
    /\ \E u \in Uplos, n \in (0 - 1) .. 2, lda \in 0 .. 2, ix \in 0 .. 1,
          bc \in (0 - 1) .. 1, pm \in {"host", "device"}, sa \in 0 .. 1,
          nl \in NullChoices \ {{"y"}, {"beta"}} :
        CallWith(MkArgs("syr", u, n, lda, ix, 1, bc, pm, sa, 0,
                        ScalarArray(2, 0), ScalarArray(0, 0), FALSE, nl, 0))

AllAt(pc) == \A w \in DOMAIN wpc : wpc[w] = pc

\* the launched symv kernel, run to completion
SymvKernel ==
    /\ launched /\ args.op = "symv" /\ AllAt("start")
    /\ dev' = symv_launch(Launch.k, Launch.grid, dev)
    /\ wpc' = [w \in DOMAIN wpc |-> "done"]
    /\ UNCHANGED <<seed, args, status, launched>>

\* the launched syr kernel, run to completion
SyrKernel ==
    /\ launched /\ args.op = "syr" /\ AllAt("start")
    /\ dev' = syr_launch(Launch.k, Launch.grid, dev)
    /\ wpc' = [w \in DOMAIN wpc |-> "done"]
    /\ UNCHANGED <<seed, args, status, launched>>

Next ==
    \/ CallSymv
    \/ CallSyr
    \/ CallSymvAny
    \/ CallSyrAny
    \/ SymvKernel
    \/ SyrKernel

Spec == Init /\ [][Next]_vars

\* ------------------------------------------- the launch, thread by thread
\* The second specification runs the launched kernel one thread at a time, in
\* every order the device may choose: a symv thread from its start to the
\* barrier (or to its return), a symv thread from the barrier to its end once
\* every thread of its block has arrived, a syr thread from start to end.
GridScalars ==
    {[pm |-> "host", sa |-> 0, sb |-> 0, al |-> ScalarArray(1, 0), be |-> ScalarArray(2, 0)]}
    \cup {[pm |-> "device", sa |-> 1, sb |-> 1, al |-> ScalarArray(va, 1),
           be |-> ScalarArray(1, 1)] : va \in ScalarVals}
GridIncs == {<<1, 1>>, <<0 - 1, MaxInc>>}

\* the calls whose launch has at most MaxWorkers threads
GridCall(a) == NumWorkers(Dispatch(a).grid) <= MaxWorkers /\ CallWith(a)

GridCallSymv ==
    /\ status = "none"
    /\ \E u \in {"upper", "lower"}, n \in 1 .. MaxN, bc \in 1 .. MaxBatch,
          p \in GridIncs, c \in GridScalars, bt \in BOOLEAN :
        GridCall(MkArgs("symv", u, n, n, p[1], p[2], bc,
                        c.pm, c.sa, c.sb, c.al, c.be, bt, {}, 0))

GridCallSyr ==
    /\ status = "none"
    /\ \E u \in {"upper", "lower"}, n \in 1 .. MaxN, bc \in 1 .. MaxBatch,
          p \in GridIncs, c \in GridScalars, bt \in BOOLEAN :
        GridCall(MkArgs("syr", u, n, n + 1, p[1], 1, bc,
                        c.pm, c.sa, 0, c.al, ScalarArray(0, 0), bt, {}, 1))

\* the threads of w's block
Block(w) == {v \in DOMAIN wpc : v.b = w.b /\ v.bx = w.bx /\ v.by = w.by}

SymvToBarrier(w) ==
    /\ launched /\ args.op = "symv" /\ wpc[w] = "start"
    /\ LET r == symv_kernel(Launch.k, Launch.grid, w, dev)
       IN  dev' = r.d /\ wpc' = [wpc EXCEPT ![w] = r.pc]
    /\ UNCHANGED <<seed, args, status, launched>>

\* thread v has stored its partial sum, the statement before __syncthreads()
Arrived(v) ==
    <<<<v.b, v.bx>>, v.tx + v.ty * symv_DIM_X, v.tx + v.ty * symv_DIM_X, "pre">> \in dev.wrS

\* the thread that goes on from the barrier without waiting for its block
SymvFromBarrier_early(w) ==
    /\ launched /\ args.op = "symv" /\ wpc[w] = "sync"
    /\ dev' = symv_kernel_sync(Launch.k, Launch.grid, w, dev)
    /\ wpc' = [wpc EXCEPT ![w] = "done"]
    /\ UNCHANGED <<seed, args, status, launched>>

\* __syncthreads() lets a thread go when every thread of its block has
\* arrived: a thread that returned before the barrier never arrives
SymvFromBarrier(w) ==
    /\ launched /\ args.op = "symv" /\ wpc[w] = "sync"
    /\ \A v \in Block(w) : wpc[v] # "start" /\ Arrived(v)
    /\ dev' = symv_kernel_sync(Launch.k, Launch.grid, w, dev)
    /\ wpc' = [wpc EXCEPT ![w] = "done"]
    /\ UNCHANGED <<seed, args, status, launched>>

SyrThread(w) ==
    /\ launched /\ args.op = "syr" /\ wpc[w] = "start"
    /\ dev' = rocblas_syr_kernel(Launch.k, Launch.grid, w, dev)
    /\ wpc' = [wpc EXCEPT ![w] = "done"]
    /\ UNCHANGED <<seed, args, status, launched>>

NextGrid ==
    \/ GridCallSymv
    \/ GridCallSyr
    \/ \E w \in DOMAIN wpc : SymvToBarrier(w)
    \/ \E w \in DOMAIN wpc : SymvFromBarrier(w)
    \/ \E w \in DOMAIN wpc : SyrThread(w)

SpecGrid == Init /\ [][NextGrid]_vars

\* The third specification is the second for symv alone with device scalars,
\* from one content of the buffers, with the device's scheduling: the device
\* runs every thread of a launched grid, so a step of some thread that can be
\* taken is eventually taken.
InitBarrier == Init /\ seed = [b \in Batches |-> 0]

BarrierCallSymv ==
    /\ status = "none"
    /\ \E n \in 1 .. MaxN, bc \in 1 .. MaxBatch,
          c \in {g \in GridScalars : g.pm = "device"} :
        GridCall(MkArgs("symv", "upper", n, n, 1, 1, bc,
                        c.pm, c.sa, c.sb, c.al, c.be, bc > 1, {}, 0))

SymvStep == \E w \in DOMAIN wpc : SymvToBarrier(w) \/ SymvFromBarrier(w)

NextBarrier ==
    \/ BarrierCallSymv
    \/ \E w \in DOMAIN wpc : SymvToBarrier(w)
    \/ \E w \in DOMAIN wpc : SymvFromBarrier(w)

SpecBarrier == InitBarrier /\ [][NextBarrier]_vars /\ WF_vars(SymvStep)

\* the call has returned and its kernel, if any, has completed
Done == status # "none" /\ (launched => AllAt("done"))

\* ================================================================ claims
Called == status # "none"
ValidUplo == args.uplo \in {"upper", "lower"}
HostStride ==
    /\ args.pointer_mode = "host"
    /\ (args.stride_alpha # 0 \/ (args.op = "symv" /\ args.stride_beta # 0))
BadSize ==
    \/ args.n < 0 \/ args.lda < args.n \/ args.lda < 1 \/ args.incx = 0
    \/ (args.op = "symv" /\ args.incy = 0) \/ args.batch_count < 0
Trivial == args.n = 0 \/ args.batch_count = 0
NullArg ==
    \/ IsNull(args.A) \/ IsNull(args.x) \/ args.alpha.kind = "null"
    \/ (args.op = "symv" /\ (IsNull(args.y) \/ args.beta.kind = "null"))
MemoryUntouched ==
    /\ dev.A = MemA0(seed) /\ dev.x = MemX0(seed) /\ dev.y = MemY0(seed)
    /\ dev.rdA = {} /\ dev.rdX = {} /\ dev.rdY = {} /\ dev.ldp = {}

\* the status of a call whose checks are made in the order (1) selector,
\* (2) sizes, (3) n == 0 or batch_count == 0, (4) null pointers, (5) host
\* scalars with a stride
StatusInStatedOrder ==
    IF ~ValidUplo THEN "invalid_value"
    ELSE IF BadSize THEN "invalid_size"
    ELSE IF Trivial THEN "success"
    ELSE IF NullArg THEN "invalid_pointer"
    ELSE IF HostStride THEN "not_implemented"
    ELSE "continue"

\* C1: the symv argument check returns the status of the first failing check
\* in the order selector, sizes, trivial success, null pointers, host stride.
C1_StatedOrder ==
    (Called /\ args.op = "symv") =>
        /\ rocblas_symv_arg_check(args) = StatusInStatedOrder
        /\ (StatusInStatedOrder # "continue" => status = StatusInStatedOrder)

\* C2 (as stated): with a valid selector, n >= 0 and batch_count >= 0, and
\* whatever the other arguments, a call with n == 0 or batch_count == 0
\* returns success, launches nothing and leaves every buffer unchanged.
C2_TrivialAlwaysSuccess ==
    (Called /\ ValidUplo /\ args.n >= 0 /\ args.batch_count >= 0 /\ Trivial) =>
        (status = "success" /\ ~launched /\ MemoryUntouched)

\* C2 (amended): such a call launches nothing and leaves every buffer
\* unchanged; it returns success when lda >= max(1, n) and the increments are
\* not zero, whatever the pointers, and invalid_size otherwise, except that
\* symv with host scalars and a non-zero scalar stride returns not_implemented.
C2_TrivialNoLaunch ==
    (Called /\ ValidUplo /\ args.n >= 0 /\ args.batch_count >= 0 /\ Trivial) =>
        /\ ~launched
        /\ MemoryUntouched
        /\ status = IF args.op = "symv" /\ HostStride THEN "not_implemented"
                    ELSE IF BadSize THEN "invalid_size"
                    ELSE "success"

\* a trivial call with a null matrix pointer has returned success
C2_Witness ==
    /\ Called /\ ValidUplo /\ args.n = 0 /\ args.batch_count = 1
    /\ IsNull(args.A) /\ status = "success" /\ ~launched

\* C3: for symv and syr, a non-trivial valid call with host scalars and a
\* non-zero scalar stride returns not_implemented and launches nothing.
C3_HostStrideRejected ==
    (Called /\ HostStride /\ ValidUplo /\ ~BadSize /\ ~Trivial /\ ~NullArg) =>
        (status = "not_implemented" /\ ~launched)

\* ------------------------------------------------- the operations' meaning
\* The problem as the caller states it: instance b's matrix and vectors, the
\* logical elements and where they lie, and the scalars of instance b.
Insts == 0 .. (args.batch_count - 1)
Rows == 0 .. (args.n - 1)
InstBase(p, b, stride) == IF p.kind = "array" THEN p.ptrs[b] ELSE p.base + b * stride
VecAddr(p, b, stride, offset, inc, i) ==
    InstBase(p, b, stride) + offset
        + (IF inc > 0 THEN i * inc ELSE (args.n - 1 - i) * (0 - inc))
XAddr(b, i) == VecAddr(args.x, b, args.stridex, args.offsetx, args.incx, i)
YAddr(b, i) == VecAddr(args.y, b, args.stridey, args.offsety, args.incy, i)
AAddr(b, row, col) ==
    InstBase(args.A, b, args.strideA) + args.offseta + row + col * args.lda
InTriangle(row, col) == IF args.uplo = "upper" THEN row <= col ELSE col <= row
Alpha(b) ==
    IF args.pointer_mode = "device" THEN args.alpha.mem[b * args.stride_alpha]
    ELSE args.alpha.mem[0]
Beta(b) ==
    IF args.pointer_mode = "device" THEN args.beta.mem[b * args.stride_beta]
    ELSE args.beta.mem[0]
A0 == MemA0(seed)
X0 == MemX0(seed)
Y0 == MemY0(seed)

\* entry (r, c) of the symmetric matrix of instance b
ASym(b, r, c) == IF InTriangle(r, c) THEN A0[AAddr(b, r, c)] ELSE A0[AAddr(b, c, r)]

\* SUM over c' in 0 .. c of ASym(b, r, c') * x_b[c']
RECURSIVE RowDot(_, _, _)
RowDot(b, r, c) ==
    IF c < 0 THEN 0 ELSE ASym(b, r, c) * X0[XAddr(b, c)] + RowDot(b, r, c - 1)

Ceil(n, t) == (n + t - 1) \div t

XElems == {XAddr(b, i) : b \in Insts, i \in Rows}
YElems == {YAddr(b, i) : b \in Insts, i \in Rows}
AElems == {AAddr(b, r, c) : b \in Insts, r \in Rows, c \in Rows}
ATriangle == {AAddr(b, t[1], t[2]) : b \in Insts, t \in {u \in Rows \X Rows : InTriangle(u[1], u[2])}}

SymvDone == Done /\ launched /\ args.op = "symv"
SyrDone == Done /\ launched /\ args.op = "syr"

\* C4: after the symv kernel, y_b[r] = beta * y_old_b[r] + alpha * SUM_c
\* Asym_b[r, c] * x_b[c] for every row r < n of every instance with alpha # 0,
\* for n a multiple of the tile width or not; the threads of rows >= n load
\* nothing of A or x and store nothing to y.
C4_SymvResult ==
    SymvDone =>
        /\ Launch.grid.bx = Ceil(args.n, symv_DIM_X)
        /\ \A b \in Insts : Alpha(b) # 0 =>
              \A r \in Rows :
                  /\ dev.y[YAddr(b, r)]
                        = Beta(b) * Y0[YAddr(b, r)] + Alpha(b) * RowDot(b, r, args.n - 1)
                  /\ dev.wrY[YAddr(b, r)] = 1
        /\ \A a \in VAddrs \ YElems : dev.wrY[a] = 0 /\ dev.y[a] = Y0[a]
        /\ dev.rdY \subseteq YElems
        /\ dev.rdX \subseteq XElems
        /\ dev.rdA \subseteq AElems
        /\ dev.fault = {}

\* symv has completed for n = 3 (a last tile with one row of two), lower
\* triangle, with alpha # 0 and beta # 0
C4_Witness ==
    /\ SymvDone /\ args.n = 3 /\ args.uplo = "lower" /\ args.batch_count = 2
    /\ Alpha(0) # 0 /\ Beta(0) = 2 /\ dev.y # Y0

\* C5: after the syr kernel every position (i, j), i < n, j < n, of the
\* selected triangle of every instance with alpha # 0 holds
\* A_old[i, j] + alpha * x[i] * x[j], stored exactly once, the grid being
\* ceil(n / DIM_X) by ceil(n / DIM_Y) blocks for each instance.
C5_SyrResult ==
    SyrDone =>
        /\ Launch.grid.bx = Ceil(args.n, GEMV_DIM_X)
        /\ Launch.grid.by = Ceil(args.n, GEMV_DIM_Y)
        /\ Launch.grid.nb = args.batch_count
        /\ \A b \in Insts : Alpha(b) # 0 =>
              \A i \in Rows, j \in Rows : InTriangle(i, j) =>
                  /\ dev.A[AAddr(b, i, j)]
                        = A0[AAddr(b, i, j)] + Alpha(b) * X0[XAddr(b, i)] * X0[XAddr(b, j)]
                  /\ dev.wrA[AAddr(b, i, j)] = 1
        /\ dev.fault = {}

\* syr has completed for n = 3, upper triangle, a negative increment, alpha # 0
C5_Witness ==
    /\ SyrDone /\ args.n = 3 /\ args.uplo = "upper" /\ args.incx < 0
    /\ Alpha(0) # 0 /\ dev.A # A0

\* C6: every element of A that symv or syr loads, or syr stores, is an element
\* (row, col), row < n, col < n, of the selected triangle of an instance; no
\* other element of A is loaded or stored, and each holds its old value.
C6_TriangleOnly ==
    launched =>
        /\ dev.rdA \subseteq ATriangle
        /\ \A a \in AAddrs \ ATriangle : dev.wrA[a] = 0 /\ dev.A[a] = A0[a]
        /\ args.op = "symv" => dev.A = A0
        /\ \A f \in dev.fault : f[1] # "A"

\* symv (upper) and syr have loaded elements of a matrix with n = 3
C6_Witness ==
    /\ Done /\ launched /\ args.n = 3 /\ args.uplo = "upper" /\ args.lda = 4
    /\ Cardinality(dev.rdA) >= 6

\* C7: symv with host scalars alpha == 0 and beta == 1, n > 0 and any
\* batch_count >= 1, returns success and leaves every element of y of every
\* instance unchanged, with or without a launch.
C7_HostIdentity ==
    (Done /\ args.op = "symv" /\ rocblas_symv_arg_check(args) = "continue"
        /\ args.pointer_mode = "host" /\ args.alpha.mem[0] = 0 /\ args.beta.mem[0] = 1) =>
        /\ status = "success"
        /\ dev.y = Y0
        /\ \A a \in VAddrs : dev.wrY[a] = 0
        /\ launched = (args.batch_count # 1)

\* the kernel of such a call with two instances was launched and has completed
C7_Witness ==
    /\ SymvDone /\ args.pointer_mode = "host" /\ args.batch_count = 2 /\ args.n = 3
    /\ args.alpha.mem[0] = 0 /\ args.beta.mem[0] = 1

\* the heap region in which instance b's matrix (vector) lies
ARegionOf(b) == InstBase(args.A, b, args.strideA) \div ARegion
XRegionOf(b) == InstBase(args.x, b, args.stridex) \div VRegion

\* C8: symv with device scalars: for every instance b whose alpha is 0,
\* y_b[i] becomes beta * y_old_b[i] for every i < n (no store when beta is 1),
\* and nothing of A_b or x_b, nor their entries of the pointer arrays, is loaded.
C8_DeviceAlphaZero ==
    (SymvDone /\ args.pointer_mode = "device") =>
        \A b \in Insts : Alpha(b) = 0 =>
            /\ \A i \in Rows :
                  /\ dev.y[YAddr(b, i)] = Beta(b) * Y0[YAddr(b, i)]
                  /\ Beta(b) = 1 => dev.wrY[YAddr(b, i)] = 0
            /\ \A a \in dev.rdA : a \div ARegion # ARegionOf(b)
            /\ \A a \in dev.rdX : a \div VRegion # XRegionOf(b)
            /\ <<"A", b>> \notin dev.ldp
            /\ <<"x", b>> \notin dev.ldp

\* two instances behind pointer arrays, alpha 0 for the first and not for the
\* second, beta 2: y of the first is scaled, A and x of the second were loaded
C8_Witness ==
    /\ SymvDone /\ args.pointer_mode = "device" /\ args.batch_count = 2
    /\ args.batched /\ args.n = 3
    /\ Alpha(0) = 0 /\ Alpha(1) # 0 /\ Beta(0) = 2
    /\ dev.y[YAddr(0, 0)] = 2 * Y0[YAddr(0, 0)]
    /\ <<"A", 1>> \in dev.ldp

\* The same call with the increments made positive and the vectors reversed
\* in place: element i of a vector that lies at offset + |inc| * (n - 1 - i)
\* for a negative increment lies at offset + |inc| * i.
PosAddr(p, b, stride, offset, inc, i) == InstBase(p, b, stride) + offset + Abs(inc) * i
Reversed(mem, p, stride, offset, inc) ==
    [a \in VAddrs |->
        IF \E b \in Insts, i \in Rows : a = PosAddr(p, b, stride, offset, inc, i)
        THEN LET c == CHOOSE c \in Insts \X Rows :
                        a = PosAddr(p, c[1], stride, offset, inc, c[2])
             IN  mem[PosAddr(p, c[1], stride, offset, inc, args.n - 1 - c[2])]
        ELSE mem[a]]
PosArgs == [args EXCEPT !.incx = Abs(@), !.incy = Abs(@)]
PosDev ==
    [Dev0(seed) EXCEPT
        !.x = IF args.incx < 0
              THEN Reversed(X0, args.x, args.stridex, args.offsetx, args.incx) ELSE X0,
        !.y = IF args.incy < 0
              THEN Reversed(Y0, args.y, args.stridey, args.offsety, args.incy) ELSE Y0]
PosRun == symv_launch(Dispatch(PosArgs).k, Dispatch(PosArgs).grid, PosDev)
Span(p, stride, offset, inc) ==
    {InstBase(p, b, stride) + offset + j : b \in Insts, j \in 0 .. (Abs(inc) * (args.n - 1))}

\* C9: symv with a negative increment for x or y: the kernel's element i of
\* that vector lies at offset + |inc| * (n - 1 - i), every access lies in
\* [offset, offset + |inc| * (n - 1)], and every element of the result equals
\* that of the run with increment |inc| on the reversed vector.
C9_NegativeIncrement ==
    (SymvDone /\ (args.incx < 0 \/ args.incy < 0)) =>
        /\ \A b \in Insts, i \in Rows :
              /\ args.incx < 0 =>
                    load_ptr_batch(Launch.k.xa, b, Launch.k.shiftx, Launch.k.stridex)
                        + i * args.incx
                    = InstBase(args.x, b, args.stridex) + args.offsetx
                        + Abs(args.incx) * (args.n - 1 - i)
              /\ args.incy < 0 =>
                    load_ptr_batch(Launch.k.ya, b, Launch.k.shifty, Launch.k.stridey)
                        + i * args.incy
                    = InstBase(args.y, b, args.stridey) + args.offsety
                        + Abs(args.incy) * (args.n - 1 - i)
              /\ dev.y[YAddr(b, i)]
                    = PosRun.y[PosAddr(args.y, b, args.stridey, args.offsety, args.incy, i)]
        /\ dev.rdX \subseteq Span(args.x, args.stridex, args.offsetx, args.incx)
        /\ dev.rdY \subseteq Span(args.y, args.stridey, args.offsety, args.incy)
        /\ \A a \in VAddrs \ Span(args.y, args.stridey, args.offsety, args.incy) :
              dev.wrY[a] = 0
        /\ dev.fault = {}

\* symv has completed with incx = incy = -2 for n = 3 and alpha # 0
C9_Witness ==
    /\ SymvDone /\ args.incx = 0 - 2 /\ args.incy = 0 - 2 /\ args.n = 3
    /\ Alpha(0) # 0 /\ dev.y # Y0 /\ args.offsetx = 1

\* The runs that differ from this one only in the inputs of instances other
\* than j: the contents of their regions of the heaps, and their scalars.
AltSeeds(j) ==
    {s2 \in Seeds : \A r \in Batches :
        s2[r] # seed[r] => \E i \in Insts \ {j} : ARegionOf(i) = r}
AltScalars(j, m, stride) ==
    {m2 \in [Batches -> ScalarVals] :
        /\ args.pointer_mode = "host" => m2 = m
        /\ \A t \in Batches :
              m2[t] # m[t] => (t # j * stride /\ \E i \in Insts \ {j} : t = i * stride)}
AltArgs(al2, be2) == [args EXCEPT !.alpha.mem = al2, !.beta.mem = be2]
AltRun(a2, s2) ==
    IF a2.op = "symv"
    THEN symv_launch(Dispatch(a2).k, Dispatch(a2).grid, Dev0(s2))
    ELSE syr_launch(Dispatch(a2).k, Dispatch(a2).grid, Dev0(s2))
ARegionAddrs(j) == {a \in AAddrs : a \div ARegion = ARegionOf(j)}
VRegionAddrs(j) == {a \in VAddrs : a \div VRegion = XRegionOf(j)}

\* C10: when every thread of a launch has finished, in whatever order the
\* threads ran, what instance j's region of y (symv) and of A (syr) holds is
\* what it holds after the launch of every call that differs only in the
\* buffers and scalars of the other instances, for instances a stride apart
\* in one buffer and for instances behind a pointer array.
C10_BatchIndependence ==
    (launched /\ AllAt("done")) =>
        \A j \in Insts :
            \A s2 \in AltSeeds(j),
               al2 \in AltScalars(j, args.alpha.mem, args.stride_alpha),
               be2 \in AltScalars(j, args.beta.mem, args.stride_beta) :
                LET r == AltRun(AltArgs(al2, be2), s2)
                IN  /\ \A a \in VRegionAddrs(j) : dev.y[a] = r.y[a]
                    /\ \A a \in ARegionAddrs(j) : dev.A[a] = r.A[a]

\* two instances behind pointer arrays, each with its own non-zero alpha, have
\* been computed thread by thread, and there is a run with other inputs for
\* the first instance whose first instance ends otherwise
C10_Witness ==
    /\ launched /\ AllAt("done") /\ args.batch_count = 2 /\ args.batched
    /\ args.pointer_mode = "device" /\ Alpha(0) # 0 /\ Alpha(1) # 0
    /\ \E s2 \in AltSeeds(1), al2 \in AltScalars(1, args.alpha.mem, args.stride_alpha) :
          LET r == AltRun(AltArgs(al2, args.beta.mem), s2)
          IN  (r.y # dev.y \/ r.A # dev.A) /\ al2 # args.alpha.mem /\ s2 # seed

BlockPast(t) == \A v \in DOMAIN wpc : (v.b = t[1] /\ v.bx = t[2]) => wpc[v] # "start"
PreStores(t, slot) == {e \in dev.wrS : e[1] = t /\ e[2] = slot /\ e[4] = "pre"}
LaunchedTiles == {t \in Tiles : t[1] \in Insts /\ t[2] < Launch.grid.bx}

\* C12: in every state of every order of the threads: no element of y (symv)
\* or of A (syr) has been stored to twice; every element of sdata is stored
\* before the barrier by the one thread whose index it is, exactly once in a
\* tile whose threads have all arrived; and an element is loaded, or
\* accumulated into, only when every thread of the tile has arrived, only by
\* the thread of local_y == 0 of the element's local_x lane.
C12_RaceFree ==
    launched =>
        /\ \A a \in VAddrs : dev.wrY[a] <= 1
        /\ \A a \in AAddrs : dev.wrA[a] <= 1
        /\ \A e \in dev.wrS :
              /\ e[2] = e[3]
              /\ e[4] = "post" => (e[3] < symv_DIM_X /\ BlockPast(e[1]))
        /\ \A t \in LaunchedTiles, slot \in SSlots :
              /\ Cardinality(PreStores(t, slot)) <= 1
              /\ (args.op = "symv" /\ BlockPast(t) /\ Alpha(t[1]) # 0) =>
                    Cardinality(PreStores(t, slot)) = 1
        /\ \A e \in dev.rdS :
              /\ e[3] < symv_DIM_X
              /\ e[2] % symv_DIM_X = e[3]
              /\ BlockPast(e[1])
              /\ PreStores(e[1], e[2]) # {}

\* a thread of the first instance has made its reduction and stored to y
\* while a thread of the second instance has not started and another waits
C12_Witness ==
    /\ launched /\ args.op = "symv" /\ args.batch_count = 2 /\ args.n = 2
    /\ Alpha(0) # 0 /\ Alpha(1) # 0
    /\ \E e \in dev.rdS : e[1] = <<0, 0>>
    /\ dev.wrY[YAddr(0, 0)] = 1
    /\ \E v \in DOMAIN wpc : v.b = 1 /\ wpc[v] = "start"
    /\ \E v \in DOMAIN wpc : v.b = 1 /\ wpc[v] = "sync"

\* C13: after a syr launch, in host and in device pointer mode, for every
\* instance whose alpha is 0: no element of its A was loaded or stored and A
\* holds its old values in both triangles, no element of its x was loaded,
\* and its entries of the pointer arrays were not loaded; every instance of
\* the same launch whose alpha is not 0 has its triangle updated.
C13_SyrAlphaZero ==
    SyrDone =>
        \A b \in Insts :
            IF Alpha(b) = 0
            THEN /\ \A a \in ARegionAddrs(b) :
                       dev.A[a] = A0[a] /\ dev.wrA[a] = 0 /\ a \notin dev.rdA
                 /\ \A a \in VRegionAddrs(b) : a \notin dev.rdX
                 /\ <<"A", b>> \notin dev.ldp
                 /\ <<"x", b>> \notin dev.ldp
            ELSE \A i \in Rows, j \in Rows : InTriangle(i, j) =>
                    /\ dev.wrA[AAddr(b, i, j)] = 1
                    /\ dev.A[AAddr(b, i, j)]
                          = A0[AAddr(b, i, j)] + Alpha(b) * X0[XAddr(b, i)] * X0[XAddr(b, j)]

\* syr has completed for two instances behind pointer arrays, the first with
\* alpha 0 and the second not: the second was updated
C13_Witness ==
    /\ SyrDone /\ args.pointer_mode = "device" /\ args.batch_count = 2
    /\ args.batched /\ args.n = 3
    /\ Alpha(0) = 0 /\ Alpha(1) # 0
    /\ dev.wrA[AAddr(1, 0, 0)] = 1 /\ <<"A", 1>> \in dev.ldp

\* a thread that has left its start has arrived at the barrier exactly when
\* the alpha of its instance is not 0: all threads of a tile, or none
BarrierUniform ==
    (launched /\ args.op = "symv") =>
        \A v \in DOMAIN wpc :
            /\ wpc[v] # "start" => (Arrived(v) <=> Alpha(v.b) # 0)
            /\ wpc[v] = "sync" => Arrived(v)
            /\ \A u \in Block(v) :
                  (wpc[u] # "start" /\ wpc[v] # "start") => (Arrived(u) <=> Arrived(v))

\* a thread passes the barrier once: it never comes back to it or before it
BarrierOnce ==
    \A w \in DOMAIN wpc :
        /\ wpc[w] = "sync" => wpc'[w] \in {"sync", "done"}
        /\ wpc[w] = "done" => wpc'[w] = "done"

\* C14: in every launched symv tile all threads arrive at the barrier (those
\* of rows >= n too) or none does (alpha == 0), a thread passes it once, and
\* every thread of every tile eventually finishes.
C14_BarrierTerminates ==
    /\ []BarrierUniform
    /\ [][BarrierOnce]_vars
    /\ (launched /\ args.op = "symv") ~> AllAt("done")

\* the threads of the first instance (alpha 0) have returned without the
\* barrier, and those of the second, one of them of a row >= n, all wait at it
C14_Witness ==
    /\ launched /\ args.op = "symv" /\ args.batch_count = 2 /\ args.n = 1
    /\ Alpha(0) = 0 /\ Alpha(1) # 0
    /\ \A v \in DOMAIN wpc :
          /\ v.b = 0 => (wpc[v] = "done" /\ ~Arrived(v))
          /\ v.b = 1 => (wpc[v] = "sync" /\ Arrived(v))

====
